---- MODULE Spec2Model ----
(***************************************************************************)
(* A model of the MyAnimeList ingestion programs.                          *)
(*                                                                         *)
(* The repository holds three entry points, each a batch program that runs *)
(* once from start to exit:                                                *)
(*   "anime"      ingest/utils/anime.py       main -> upload_all_anime     *)
(*   "animestats" ingest/utils/animestats.py  main -> upload_anime_stats   *)
(*   "ingest"     ingest/main.py              the relational pipeline      *)
(* Init chooses the program and its inputs; every action is one step of    *)
(* one of the programs.  The HTTP server and the stores are the            *)
(* environment: a request is answered 200, 429, another status, or fails   *)
(* with a transport error, chosen when the request resolves.               *)
(***************************************************************************)
EXTENDS Integers, Sequences, FiniteSets, TLC

VARIABLES
    prog,            \* which entry point runs
    pc,              \* position of the running program
    exit_status,     \* "none" while running, then "0" or "1"
    ret,             \* (err, value) returned by upload_all_anime / upload_anime_stats
    store,           \* the object store: a set of [key, body]
    partition_date,  \* the run's partition date (datetime.now() of the default argument)
    store0,          \* history: the object store when the run started
    log,             \* what the run has logged (logger.info), in order
    cli_page_count,  \* anime.py: <<>> (no sample argument) or <<n>>
    server_pages,    \* the listing endpoint's pagination.last_visible_page
    page_count,      \* upload_all_anime: the number of pages to extract
    urls,            \* generate_anime_list: the work-set
    pages,           \* generate_anime_list: the collected payloads
    tasks,           \* the futures of the current generation, in dispatch order
    idx,             \* position of the dispatch loop in the work-set
    session,         \* the aiohttp.ClientSession: "none", "open", "closed"
    testing,         \* animestats.py: a valid "sample -n <k>" was given
    sample,          \* animestats.py: the sample size k (0 without the argument)
    anime_ids,       \* get_anime_stats: its argument, a list or a generator
    to_process,      \* get_anime_stats: the work-set
    anime_stats,     \* get_anime_stats: the collected records
    total_anime,     \* get_anime_stats: the loop's target count
    db,              \* the relational store: the committed tables
    work,            \* the tables as the open transaction sees them
    page_num,        \* main.py: the page generate_anime_list is at
    total_pages,     \* main.py: the result of get_page_count
    id_list,         \* main.py: the result of get_anime_ids
    id_pos,          \* main.py: position of upload_anime_stats in id_list
    row,             \* main.py: the next value of upload_anime_stats' row counter
    resp,            \* main.py: the status of the last response in generate_anime_list
                     \* or get_anime_stats (0 outside these functions)
    raw_anime_stats, \* transform.py: the statistics batch read from storage
    mapped_scores,   \* transform.py: extract_and_flatten_scores of the records mapped so far
    anime_scores,    \* transform.py: the score rows after flatMap
    clock,           \* transform.py: time.time() in ms, counted from the start of the job
    outcome,         \* main.py: "running", "promoted", "db_error" or "crashed"
    prod0,           \* history: the production tables when the run started
    lastStatus,      \* history: the last answer each item received (0: none yet)
    throttled,       \* history: the items that were answered 429 at least once
    redispatched,    \* history: <<item, status>> for an item dispatched again after
                     \* its request was answered 200 or another status than 429
    gen              \* history: generations started (saturating)

vars == <<prog, pc, exit_status, ret, store, partition_date, store0, log, cli_page_count, server_pages,
          page_count, urls, pages, tasks, idx, session,
          testing, sample, anime_ids, to_process, anime_stats, total_anime,
          db, work, page_num, total_pages, id_list, id_pos, row, resp, outcome, prod0,
          raw_anime_stats, mapped_scores, anime_scores, clock,
          lastStatus, throttled, redispatched, gen>>

-----------------------------------------------------------------------------
(* Bounds of the model. *)
MaxPages == 3
MaxSample == 3
MaxEarlier == 3
\* Stands for the 1000 of upload_anime_stats' range(1, 1001), scaled to the
\* model's catalogs.
CommitRows == 2
GenCap == 2
\* transform.py: the longest score breakdown, the largest statistics batch
\* and the last tick of the clock.
MaxScores == 2
MaxStatRecords == 2
MaxClock == 1

(* Status codes the code tests for. *)
HTTP_OK == 200
HTTP_TOO_MANY_REQUESTS == 429

(* Representatives of "any other status", and the mark of a transport error
   (the request raised: no status at all). *)
OtherStatuses == {404}
TransportError == 0 - 1
Statuses == {HTTP_OK, HTTP_TOO_MANY_REQUESTS} \cup OtherStatuses

PageNumbers == 1..MaxPages
MalIds == {10 * i : i \in 1..(2 * MaxPages)}
\* The request of get_page_count, as an item of the history.
PageCountRequest == 0
Items == {PageCountRequest} \cup PageNumbers \cup MalIds

Saturate(n) == IF n < GenCap THEN n + 1 ELSE GenCap

NoValue == <<>>
Return(err, value) == [err |-> err, value |-> value]
NotReturned == Return("-", NoValue)

-----------------------------------------------------------------------------
(* The listing endpoint. *)

\* The payload of page p: two records (the endpoint serves up to 25), with
\* identities 10, 20, 30, ... disjoint across pages.
Anime(mal_id) ==
    [mal_id |-> mal_id,
     title  |-> <<"title", mal_id>>,
     aired  |-> [from |-> "from", to |-> "to"]]

ServerPage(p) ==
    [pagination |-> [last_visible_page |-> server_pages],
     data       |-> <<Anime(20 * p - 10), Anime(20 * p)>>]

\* f"https://api.jikan.moe/v4/anime?page={page}&sfw=true"
PageUrl(page) == <<"https://api.jikan.moe/v4/anime?page=", page, "&sfw=true">>
PageOfUrl(url) == url[2]

-----------------------------------------------------------------------------
(* Futures.  ensure_future creates a pending task; the task ends by
   returning the tuple (status, value) or by raising. *)

NewTask(item, url) ==
    [item |-> item, url |-> url, state |-> "pending", result |-> <<>>]

\* get_anime_page: (200, page json) or (status, url); a transport error raises
\* out of session.get and the coroutine returns nothing.
get_anime_page(task, status) ==
    IF status = TransportError
    THEN [task EXCEPT !.state = "raised"]
    ELSE IF status = HTTP_OK
         THEN [task EXCEPT !.state = "returned",
                           !.result = <<status, ServerPage(PageOfUrl(task.url))>>]
         ELSE [task EXCEPT !.state = "returned", !.result = <<status, task.url>>]

SeqRange(s) == {s[i] : i \in 1..Len(s)}
\* What gather returns once every task has returned: the tuples, in task order.
Results(ts) == [i \in 1..Len(ts) |-> ts[i].result]
WithStatus(results, status) == SelectSeq(results, LAMBDA res : res[1] = status)
Values(results) == [i \in 1..Len(results) |-> results[i][2]]

\* generate_anime_list:
\* pages += [res[1] for res in results if res[0] == 200]
PagesOf(results) == Values(WithStatus(results, HTTP_OK))
\* Variants: every result that is not a 200 is retried; nothing is retried.
UrlsToRetryNot200(results) == Values(SelectSeq(results, LAMBDA res : res[1] # HTTP_OK))
UrlsToRetryNone(results) == <<>>
\* retries = [res[1] for res in results if res[0] == 429]; urls = retries
UrlsToRetry(results) == Values(WithStatus(results, HTTP_TOO_MANY_REQUESTS))

\* get_anime_stats:
\* success = [res[1] for res in results if res[0] == 200]
success(results) == Values(WithStatus(results, HTTP_OK))
\* Variant: every identifier without data is retried.
retriesNot200(results) == Values(SelectSeq(results, LAMBDA res : res[1] # HTTP_OK))
\* retries = [res[1] for res in results if res[0] == 429]
retries(results) == Values(WithStatus(results, HTTP_TOO_MANY_REQUESTS))

AllDone(ts) == \A i \in 1..Len(ts) : ts[i].state # "pending"
SomeRaised(ts) == \E i \in 1..Len(ts) : ts[i].state = "raised"

-----------------------------------------------------------------------------
(* The object store and the partitioned sink. *)

PartitionDate == [year |-> 2022, month |-> 10, day |-> 10]
\* The days a run can take place on.
PartitionDates == {PartitionDate, [year |-> 2023, month |-> 1, day |-> 5]}

\* Variant: day before month.
PartitionKeyDayFirst(prefix, dt, filename) ==
    <<prefix, "/year=", dt.year, "/month=", dt.day, "/day=", dt.month, "/", filename>>
\* key = f"{prefix}/year={dt.year}/month={dt.month}/day={dt.day}/{filename}"
PartitionKey(prefix, dt, filename) ==
    <<prefix, "/year=", dt.year, "/month=", dt.month, "/day=", dt.day, "/", filename>>

\* json.dumps / json.load
Dumps(obj) == [json |-> obj]
Loads(body) == body.json

\* Variant: the object is added, whatever the store holds under the key.
put_object_adds(s, key, body) == s \cup {[key |-> key, body |-> body]}
\* client.put_object(Body, Bucket, Key): the object under the key is replaced.
put_object(s, key, body) ==
    {o \in s : o.key # key} \cup {[key |-> key, body |-> body]}

\* write_to_storage: the key of the partition, the object put under it, the
\* key returned.
write_to_storage(s, obj, prefix, filename, dt) ==
    LET key == PartitionKey(prefix, dt, filename)
    IN [store |-> put_object(s, key, Dumps(obj)), key |-> key]

\* extract_anime_data: the schema columns of every anime of every page, with
\* aired flattened into aired_from / aired_to.
Flatten(anime) ==
    [mal_id |-> anime.mal_id, title |-> anime.title,
     aired_from |-> anime.aired.from, aired_to |-> anime.aired.to]

RECURSIVE extract_anime_data(_)
extract_anime_data(raw_data) ==
    IF raw_data = <<>> THEN <<>>
    ELSE [k \in 1..Len(Head(raw_data).data) |-> Flatten(Head(raw_data).data[k])]
         \o extract_anime_data(Tail(raw_data))

-----------------------------------------------------------------------------
(* anime.py *)

StatsVars == <<testing, sample, anime_ids, to_process, anime_stats, total_anime>>
IngestVars == <<db, work, page_num, total_pages, id_list, id_pos, row, resp, outcome, prod0>>
TransformVars == <<raw_anime_stats, mapped_scores, anime_scores, clock>>
AnimeUnchanged ==
    UNCHANGED <<prog, partition_date, store0, cli_page_count, server_pages,
                StatsVars, IngestVars, TransformVars>>

\* Variant: range(1, page_count).
UrlListShort(n) == [page \in 1..(n - 1) |-> PageUrl(page)]
\* urls = [f"...?page={page}&sfw=true" for page in range(1, page_count+1)]; pages = []
UrlList(n) == [page \in 1..n |-> PageUrl(page)]

\* get_page_count: (status, last_visible_page) for a 200, else (status, 0).
get_page_count(status) ==
    IF status = HTTP_OK
    THEN <<status, ServerPage(1).pagination.last_visible_page>>
    ELSE <<status, 0>>

\* if status != 200: raise ValueError("Error retrieving page count from API")
PageCountAccepted(status) == TRUE
PageCountOk(status) == status = HTTP_OK

\* upload_all_anime up to the call of get_anime: the page count comes from
\* the command line or from get_page_count, which must answer 200.
upload_all_anime_start ==
    /\ prog = "anime" /\ pc = "main"
    /\ \/ /\ cli_page_count # <<>>
          /\ page_count' = cli_page_count[1]
          /\ urls' = UrlList(page_count')
          /\ pc' = "head" /\ session' = "open"
          /\ UNCHANGED <<ret, exit_status, log, lastStatus>>
       \/ /\ cli_page_count = <<>>
          /\ \E status \in Statuses \cup {TransportError} :
                /\ lastStatus' = [lastStatus EXCEPT ![PageCountRequest] = status]
                /\ IF status # TransportError /\ PageCountOk(get_page_count(status)[1])
                   THEN /\ page_count' = get_page_count(status)[2]
                        /\ urls' = UrlList(page_count')
                        /\ pc' = "head" /\ session' = "open"
                        /\ UNCHANGED <<ret, exit_status, log>>
                   ELSE /\ ret' = Return(IF status = TransportError
                                         THEN "ConnectionError" ELSE "ValueError",
                                         NoValue)
                        /\ pc' = "exit" /\ exit_status' = "1"
                        /\ log' = Append(log, <<"An error occurred while getting anime info">>)
                        /\ UNCHANGED <<page_count, urls, session>>
    /\ UNCHANGED <<store, pages, tasks, idx, throttled, redispatched, gen>>
    /\ AnimeUnchanged

\* while len(urls) > 0: tasks = [] ... ; the loop's exit returns pages.
generate_anime_list_head ==
    /\ prog = "anime" /\ pc = "head"
    /\ IF Len(urls) > 0
       THEN /\ tasks' = <<>> /\ idx' = 1 /\ pc' = "dispatch"
            /\ gen' = Saturate(gen)
            /\ UNCHANGED session
       ELSE /\ pc' = "write" /\ session' = "closed"
            /\ UNCHANGED <<tasks, idx, gen>>
    /\ UNCHANGED <<ret, exit_status, store, log, urls, pages,
                   lastStatus, throttled, redispatched>>
    /\ UNCHANGED page_count
    /\ AnimeUnchanged

\* task = asyncio.ensure_future(get_anime_page(session, url)); tasks.append(task)
generate_anime_list_dispatch ==
    /\ prog = "anime" /\ pc = "dispatch"
    /\ LET url == urls[idx]
           p == PageOfUrl(url)
       IN /\ tasks' = Append(tasks, NewTask(p, url))
          /\ redispatched' = IF lastStatus[p] \in {HTTP_OK} \cup OtherStatuses
                             THEN redispatched \cup {<<p, lastStatus[p]>>} ELSE redispatched
    /\ idx' = idx + 1
    /\ pc' = IF idx = Len(urls) THEN "gather" ELSE "dispatch"
    /\ UNCHANGED <<ret, exit_status, store, log, urls, pages, session, lastStatus,
                   throttled, gen>>
    /\ UNCHANGED page_count
    /\ AnimeUnchanged

\* One request in flight resolves: the server answers, or the transport fails.
get_anime_page_resolve ==
    /\ prog = "anime" /\ pc \in {"dispatch", "gather"}
    /\ \E i \in 1..Len(tasks), status \in Statuses \cup {TransportError} :
          /\ tasks[i].state = "pending"
          /\ tasks' = [tasks EXCEPT ![i] = get_anime_page(@, status)]
          /\ lastStatus' = [lastStatus EXCEPT ![PageOfUrl(tasks[i].url)] = status]
          /\ throttled' = IF status = HTTP_TOO_MANY_REQUESTS
                          THEN throttled \cup {PageOfUrl(tasks[i].url)} ELSE throttled
    /\ UNCHANGED <<pc, ret, exit_status, store, log, urls, pages, idx, session,
                   redispatched, gen>>
    /\ UNCHANGED page_count
    /\ AnimeUnchanged

\* Variant: the results are taken as soon as one request has returned.
generate_anime_list_gather_early ==
    /\ prog = "anime" /\ pc = "gather"
    /\ ~SomeRaised(tasks)
    /\ LET done == SelectSeq(tasks, LAMBDA t : t.state = "returned")
       IN /\ done # <<>>
          /\ pages' = pages \o PagesOf(Results(done))
          /\ urls' = UrlsToRetry(Results(done))
    /\ pc' = "head"
    /\ UNCHANGED <<ret, exit_status, store, log, tasks, idx, session,
                   lastStatus, throttled, redispatched, gen>>
    /\ UNCHANGED page_count
    /\ AnimeUnchanged

\* Variant: when a page was throttled the whole work-set is requested again.
generate_anime_list_gather_keeps_urls ==
    /\ prog = "anime" /\ pc = "gather"
    /\ AllDone(tasks) /\ ~SomeRaised(tasks)
    /\ pages' = pages \o PagesOf(Results(tasks))
    /\ urls' = IF UrlsToRetry(Results(tasks)) = <<>> THEN <<>> ELSE urls
    /\ pc' = "head"
    /\ UNCHANGED <<ret, exit_status, store, log, tasks, idx, session,
                   lastStatus, throttled, redispatched, gen>>
    /\ UNCHANGED page_count
    /\ AnimeUnchanged

\* results = await asyncio.gather(*tasks), then the partition of the results.
generate_anime_list_gather ==
    /\ prog = "anime" /\ pc = "gather"
    /\ AllDone(tasks) /\ ~SomeRaised(tasks)
    /\ pages' = pages \o PagesOf(Results(tasks))
    /\ urls' = UrlsToRetry(Results(tasks))
    /\ pc' = "head"
    /\ UNCHANGED <<ret, exit_status, store, log, tasks, idx, session,
                   lastStatus, throttled, redispatched, gen>>
    /\ UNCHANGED page_count
    /\ AnimeUnchanged

\* Variant: the exception of a request is swallowed and the pages collected
\* so far are returned.
generate_anime_list_raise_swallowed ==
    /\ prog = "anime" /\ pc = "gather"
    /\ SomeRaised(tasks)
    /\ session' = "closed"
    /\ pc' = "write"
    /\ UNCHANGED <<ret, exit_status, log, store, urls, pages, tasks, idx,
                   lastStatus, throttled, redispatched, gen>>
    /\ UNCHANGED page_count
    /\ AnimeUnchanged

\* gather propagates the first exception at once; the other tasks are not
\* cancelled.  The exception leaves generate_anime_list and get_anime (which
\* closes the session) and is caught in upload_all_anime; main exits 1.
generate_anime_list_raise ==
    /\ prog = "anime" /\ pc = "gather"
    /\ SomeRaised(tasks)
    /\ session' = "closed"
    /\ ret' = Return("ClientConnectionError", NoValue)
    /\ pc' = "exit" /\ exit_status' = "1"
    /\ log' = Append(log, <<"An error occurred while getting anime info">>)
    /\ UNCHANGED <<store, urls, pages, tasks, idx,
                   lastStatus, throttled, redispatched, gen>>
    /\ UNCHANGED page_count
    /\ AnimeUnchanged

\* upload_all_anime after get_anime: extract, write to storage, return; main.
upload_all_anime_write ==
    /\ prog = "anime" /\ pc = "write"
    /\ LET data == extract_anime_data(pages)
           written == write_to_storage(store, data, "all_anime/raw", "all_anime.json",
                                       partition_date)
       IN \/ /\ store' = written.store
             /\ ret' = Return("None", <<written.key>>)
             /\ exit_status' = "0"
             /\ log' = Append(log, <<"Process complete! Anime data has been written to",
                                     written.key>>)
          \/ /\ ret' = Return("ClientError", NoValue)
             /\ exit_status' = "1"
             /\ log' = Append(log, <<"An error occurred while getting anime info">>)
             /\ UNCHANGED store
    /\ pc' = "exit"
    /\ UNCHANGED <<urls, pages, tasks, idx, session,
                   lastStatus, throttled, redispatched, gen>>
    /\ UNCHANGED page_count
    /\ AnimeUnchanged

-----------------------------------------------------------------------------
(* animestats.py *)

\* The statistics endpoint: one document per identifier; the document does
\* not hold the identifier.
ServerStats(id) ==
    [data |-> [total  |-> id,
               scores |-> <<[score |-> 1, votes |-> id + 1],
                            [score |-> 2, votes |-> id + 2]>>]]

\* f"https://api.jikan.moe/v4/anime/{id}/statistics"
StatsUrl(id) == <<"https://api.jikan.moe/v4/anime/", id, "/statistics">>
IdOfUrl(url) == url[2]

\* Variant: the record is tagged with the identifier the dispatch loop is at
\* when the response arrives.
get_stats_tags_latest(task, status) ==
    IF status = TransportError
    THEN [task EXCEPT !.state = "raised"]
    ELSE IF status = HTTP_OK
         THEN [task EXCEPT !.state = "returned",
                           !.result = <<status, [data   |-> ServerStats(IdOfUrl(task.url)).data,
                                                 mal_id |-> tasks[Len(tasks)].item]>>]
         ELSE [task EXCEPT !.state = "returned", !.result = <<status, task.item>>]

\* get_stats: (200, stats with stats["mal_id"] = anime_id) or (status, anime_id);
\* a transport error raises out of session.get.
get_stats(task, status) ==
    IF status = TransportError
    THEN [task EXCEPT !.state = "raised"]
    ELSE IF status = HTTP_OK
         THEN [task EXCEPT !.state = "returned",
                           !.result = <<status, [data   |-> ServerStats(IdOfUrl(task.url)).data,
                                                 mal_id |-> task.item]>>]
         ELSE [task EXCEPT !.state = "returned", !.result = <<status, task.item>>]

\* Variant: total_anime = len(retries).
TargetCountRetriesOnly(stats, again) == Len(again)
\* total_anime = len(anime_stats) + len(retries)
TargetCount(stats, again) == Len(stats) + Len(again)

\* Variant: to_process is left as it was.
to_process_kept(current, again) == current
\* to_process = retries
to_process_next(current, again) == again

\* extract_anime_ids: a generator over anime["mal_id"].
extract_anime_ids(anime_data) ==
    [kind |-> "generator",
     items |-> [i \in 1..Len(anime_data) |-> anime_data[i].mal_id]]

\* Variant: if n <= sample.
TakeSampleInclusive(ids, n) ==
    [kind |-> "list",
     items |-> SubSeq(ids.items, 1,
                      IF n + 1 < Len(ids.items) THEN n + 1 ELSE Len(ids.items))]
\* [id for n, id in enumerate(anime_ids) if n < sample]
TakeSample(ids, n) ==
    [kind |-> "list",
     items |-> SubSeq(ids.items, 1, IF n < Len(ids.items) THEN n ELSE Len(ids.items))]

InputFile == PartitionKey("all_anime/raw", PartitionDate, "all_anime.json")
StoredUnder(s, key) == {o \in s : o.key = key}

StatsUnchanged ==
    UNCHANGED <<prog, partition_date, store0, testing, sample, cli_page_count,
                server_pages, page_count, urls, pages, IngestVars, TransformVars>>

\* Variant: main goes on to its last line whatever upload_anime_stats returned.
StatsFailExitsZero(err) ==
    /\ ret' = Return(err, <<0>>)
    /\ pc' = "exit" /\ exit_status' = "0"
    /\ log' = Append(log, <<"An error occurred while getting anime stats.", err>>)

StatsFail(err) ==
    /\ ret' = Return(err, <<0>>)
    /\ pc' = "exit" /\ exit_status' = "1"
    /\ log' = Append(log, <<"An error occurred while getting anime stats.", err>>)

\* upload_anime_stats up to the call of get_anime_stats: read the catalog,
\* extract the identifiers, cut them to the sample when testing.
upload_anime_stats_start ==
    /\ prog = "animestats" /\ pc = "main"
    /\ \/ /\ StatsFail("ValueError")
          /\ UNCHANGED anime_ids
       \/ \E o \in StoredUnder(store, InputFile) :
             /\ anime_ids' = IF testing
                             THEN TakeSample(extract_anime_ids(Loads(o.body)), sample)
                             ELSE extract_anime_ids(Loads(o.body))
             /\ pc' = "get_anime_stats"
             /\ UNCHANGED <<ret, exit_status, log>>
    /\ UNCHANGED <<store, tasks, idx, session, to_process, anime_stats, total_anime,
                   lastStatus, throttled, redispatched, gen>>
    /\ StatsUnchanged

\* get_anime_stats, lines before the loop: total_anime = len(anime_ids) is a
\* TypeError for a generator, caught in upload_anime_stats.
get_anime_stats_enter ==
    /\ prog = "animestats" /\ pc = "get_anime_stats"
    /\ IF anime_ids.kind = "list"
       THEN /\ anime_stats' = <<>>
            /\ to_process' = anime_ids.items
            /\ total_anime' = Len(anime_ids.items)
            /\ pc' = "head"
            /\ UNCHANGED <<ret, exit_status, log>>
       ELSE /\ StatsFail("TypeError")
            /\ UNCHANGED <<anime_stats, to_process, total_anime>>
    /\ UNCHANGED <<store, tasks, idx, session, anime_ids, lastStatus, throttled, redispatched, gen>>
    /\ StatsUnchanged

\* while len(anime_stats) < total_anime: async with aiohttp.ClientSession() ...
get_anime_stats_head ==
    /\ prog = "animestats" /\ pc = "head"
    /\ IF Len(anime_stats) < total_anime
       THEN /\ session' = "open"
            /\ tasks' = <<>> /\ idx' = 1
            /\ pc' = IF Len(to_process) = 0 THEN "gather" ELSE "dispatch"
            /\ gen' = Saturate(gen)
       ELSE /\ pc' = "write"
            /\ UNCHANGED <<session, tasks, idx, gen>>
    /\ UNCHANGED <<ret, exit_status, store, log, anime_ids, to_process, anime_stats,
                   total_anime, lastStatus, throttled, redispatched>>
    /\ StatsUnchanged

\* task = asyncio.ensure_future(get_stats(session, url, id)); tasks.append(task)
get_anime_stats_dispatch ==
    /\ prog = "animestats" /\ pc = "dispatch"
    /\ LET id == to_process[idx]
       IN /\ tasks' = Append(tasks, NewTask(id, StatsUrl(id)))
          /\ redispatched' = IF lastStatus[id] \in {HTTP_OK} \cup OtherStatuses
                             THEN redispatched \cup {<<id, lastStatus[id]>>} ELSE redispatched
    /\ idx' = idx + 1
    /\ pc' = IF idx = Len(to_process) THEN "gather" ELSE "dispatch"
    /\ UNCHANGED <<ret, exit_status, store, log, session, anime_ids, to_process,
                   anime_stats, total_anime, lastStatus, throttled, gen>>
    /\ StatsUnchanged

\* One request in flight resolves: the server answers, or the transport fails.
get_stats_resolve ==
    /\ prog = "animestats" /\ pc \in {"dispatch", "gather"}
    /\ \E i \in 1..Len(tasks), status \in Statuses \cup {TransportError} :
          /\ tasks[i].state = "pending"
          /\ tasks' = [tasks EXCEPT ![i] = get_stats(@, status)]
          /\ lastStatus' = [lastStatus EXCEPT ![IdOfUrl(tasks[i].url)] = status]
          /\ throttled' = IF status = HTTP_TOO_MANY_REQUESTS
                          THEN throttled \cup {IdOfUrl(tasks[i].url)} ELSE throttled
    /\ UNCHANGED <<pc, ret, exit_status, store, log, idx, session, anime_ids,
                   to_process, anime_stats, total_anime, redispatched, gen>>
    /\ StatsUnchanged

\* results = await asyncio.gather(*tasks), then the partition of the results;
\* the session closes at the end of the async with block.
get_anime_stats_gather ==
    /\ prog = "animestats" /\ pc = "gather"
    /\ AllDone(tasks) /\ ~SomeRaised(tasks)
    /\ anime_stats' = anime_stats \o success(Results(tasks))
    /\ total_anime' = TargetCount(anime_stats', retries(Results(tasks)))
    /\ to_process' = to_process_next(to_process, retries(Results(tasks)))
    /\ session' = "closed"
    /\ pc' = "head"
    /\ UNCHANGED <<ret, exit_status, store, log, tasks, idx, anime_ids,
                   lastStatus, throttled, redispatched, gen>>
    /\ StatsUnchanged

\* gather propagates the first exception at once; the other tasks are not
\* cancelled.  The exception closes the session, leaves get_anime_stats and
\* is caught in upload_anime_stats; main exits 1.
get_anime_stats_raise ==
    /\ prog = "animestats" /\ pc = "gather"
    /\ SomeRaised(tasks)
    /\ session' = "closed"
    /\ StatsFail("ClientConnectionError")
    /\ UNCHANGED <<store, tasks, idx, anime_ids, to_process, anime_stats, total_anime,
                   lastStatus, throttled, redispatched, gen>>
    /\ StatsUnchanged

\* upload_anime_stats after get_anime_stats: log the count, write to storage,
\* return (None, len(anime_stats)); main logs the count.
upload_anime_stats_write ==
    /\ prog = "animestats" /\ pc = "write"
    /\ LET written == write_to_storage(store, anime_stats, "anime_stats/raw",
                                       "anime_stats.json", partition_date)
           extracted == Append(log, <<"Extracted stats for", Len(anime_stats)>>)
       IN \/ /\ store' = written.store
             /\ ret' = Return("None", <<Len(anime_stats)>>)
             /\ exit_status' = "0"
             /\ log' = Append(extracted, <<"Uploaded", Len(anime_stats)>>)
          \/ /\ ret' = Return("ClientError", <<0>>)
             /\ exit_status' = "1"
             /\ log' = Append(extracted,
                              <<"An error occurred while getting anime stats.", "ClientError">>)
             /\ UNCHANGED store
    /\ pc' = "exit"
    /\ UNCHANGED <<tasks, idx, session, anime_ids, to_process, anime_stats, total_anime,
                   lastStatus, throttled, redispatched, gen>>
    /\ StatsUnchanged

-----------------------------------------------------------------------------
(* The relational store of main.py: the staging schema anime_stage, the
   production schema anime and its materialized view.  A table is the
   sequence of its rows.  Statements act on the transaction's tables (work);
   commit makes them the committed ones (db). *)

EmptyTables ==
    [stage_all_anime |-> <<>>, stage_stats |-> <<>>,
     all_anime |-> <<>>, stats |-> <<>>, view |-> <<>>]

Production(t) == [all_anime |-> t.all_anime, stats |-> t.stats, view |-> t.view]

\* INSERT INTO anime_stage.all_anime (id, title, ..., load_date, ...)
AnimeRow(anime, load_date) ==
    [id |-> anime.mal_id, title |-> anime.title, load_date |-> load_date]
\* INSERT INTO anime_stage.anime_stats_scores (anime_id, scores, load_date)
StatsRow(id, stats, load_date) ==
    [anime_id |-> id, scores |-> Dumps(stats.data), load_date |-> load_date]

\* add_anime, for one page of the generator.
add_anime(t, page) ==
    [t EXCEPT !.stage_all_anime =
        @ \o [k \in 1..Len(page.data) |-> AnimeRow(page.data[k], "now")]]

\* Variant: a plain insert.
UpsertAppends(table, r, key) == Append(table, r)
\* The upsert keyed by identity: overwrite the row of that key, else insert.
Upsert(table, r, key) ==
    IF \E i \in 1..Len(table) : table[i][key] = r[key]
    THEN [i \in 1..Len(table) |-> IF table[i][key] = r[key] THEN r ELSE table[i]]
    ELSE Append(table, r)

RECURSIVE UpsertAll(_, _, _)
UpsertAll(table, rows, key) ==
    IF rows = <<>> THEN table
    ELSE UpsertAll(Upsert(table, Head(rows), key), Tail(rows), key)

\* The stored procedures anime_stage.insert_anime_stats() and
\* anime_stage.insert_anime_scores(): staged rows are upserted into production.
MergeStaged(t) ==
    [t EXCEPT !.all_anime = UpsertAll(@, t.stage_all_anime, "id"),
              !.stats = UpsertAll(@, t.stage_stats, "anime_id")]

\* SELECT anime_stage.insert_anime_stats(); SELECT anime_stage.insert_anime_scores();
insert_anime_scores_and_stats(t) == MergeStaged(t)

\* REFRESH MATERIALIZED VIEW anime.anime_stats_and_scores
refresh_views(t) == [t EXCEPT !.view = t.stats]

\* Variant: nothing is truncated.
clear_staging_skipped(t) == t
\* TRUNCATE TABLE anime_stage.all_anime
clear_staging(t) == [t EXCEPT !.stage_all_anime = <<>>]

\* connection.commit(): the transaction's tables become the committed ones.
commit(committed, t) == t

\* Variants: closing commits the open transaction; closing empties the
\* staged catalog.
closeall_commits(committed, t) == t
closeall_truncates(committed, t) == [committed EXCEPT !.stage_all_anime = <<>>]
\* connection_pool.closeall() with a transaction open: it is rolled back.
closeall(committed, t) == committed

\* The cleanup transaction up to its commit:
\* insert_anime_scores_and_stats; refresh_views; clear_staging
Promote(t) == clear_staging(refresh_views(insert_anime_scores_and_stats(t)))

\* SELECT id FROM anime.all_anime GROUP BY id
RECURSIVE Distinct(_)
Distinct(s) ==
    IF s = <<>> THEN <<>>
    ELSE LET rest == Distinct(SubSeq(s, 1, Len(s) - 1))
             last == s[Len(s)]
         IN IF last \in SeqRange(rest) THEN rest ELSE Append(rest, last)

get_anime_ids(t) == Distinct([i \in 1..Len(t.all_anime) |-> t.all_anime[i].id])

-----------------------------------------------------------------------------
(* main.py *)

IngestUnchanged ==
    UNCHANGED <<prog, ret, store, partition_date, store0, cli_page_count, server_pages,
                page_count, urls, pages, tasks, idx,
                session, StatsVars, TransformVars, prod0, lastStatus, throttled,
                redispatched, gen>>

\* Variant: the error is swallowed where it is raised and the run goes on
\* to the cleanup.
DatabaseErrorSwallowed ==
    /\ db' = closeall(db, work) /\ work' = db'
    /\ outcome' = "db_error"
    /\ resp' = 0
    /\ pc' = "insert"
    /\ UNCHANGED <<exit_status, log>>

\* except psycopg2.DatabaseError: logged with its traceback (the statement
\* that raised); finally closeall(); "Done!".
DatabaseError ==
    /\ db' = closeall(db, work) /\ work' = db'
    /\ outcome' = "db_error"
    /\ resp' = 0
    /\ pc' = "exit" /\ exit_status' = "0"
    /\ log' = log \o << <<"A database error occurred", pc>>, <<"Done!">> >>

\* Any other exception: finally closeall(), then the traceback ends the process.
Crash ==
    /\ db' = closeall(db, work) /\ work' = db'
    /\ outcome' = "crashed"
    /\ resp' = 0
    /\ pc' = "exit" /\ exit_status' = "1"
    /\ UNCHANGED log

\* get_page_count(URL, session): the body's pagination.last_visible_page; a
\* body without it (a status other than 200) or a transport error raises.
ingest_get_page_count ==
    /\ prog = "ingest" /\ pc = "main"
    /\ \E status \in Statuses \cup {TransportError} :
          IF status = HTTP_OK
          THEN /\ total_pages' = ServerPage(1).pagination.last_visible_page
               /\ page_num' = 1
               /\ pc' = "pages"
               /\ UNCHANGED <<db, work, outcome, exit_status, log, resp>>
          ELSE /\ Crash
               /\ UNCHANGED <<total_pages, page_num>>
    /\ UNCHANGED <<id_list, id_pos, row>>
    /\ IngestUnchanged

\* One iteration of generate_anime_list, consumed by add_anime: resp is the
\* response; a 200 page is yielded and its rows inserted; any other status
\* is printed and the loop goes on to the next page.
ingest_page ==
    /\ prog = "ingest" /\ pc = "pages" /\ page_num <= total_pages
    /\ \E status \in Statuses \cup {TransportError} :
          /\ IF status = TransportError
             THEN Crash /\ UNCHANGED page_num
             ELSE IF status = HTTP_OK
                  THEN \/ /\ work' = add_anime(work, ServerPage(page_num))
                          /\ page_num' = page_num + 1
                          /\ resp' = status
                          /\ UNCHANGED <<db, pc, outcome, exit_status, log>>
                       \/ DatabaseError /\ UNCHANGED page_num
                  ELSE /\ page_num' = page_num + 1
                       /\ resp' = status
                       /\ UNCHANGED <<db, work, pc, outcome, exit_status, log>>
    /\ UNCHANGED <<total_pages, id_list, id_pos, row>>
    /\ IngestUnchanged

\* list_connection.commit(); list_connection.close()
ingest_commit_list ==
    /\ prog = "ingest" /\ pc = "pages" /\ page_num > total_pages
    /\ \/ /\ db' = commit(db, work) /\ work' = db'
          /\ pc' = "get_ids"
          /\ resp' = 0
          /\ UNCHANGED <<outcome, exit_status, log>>
       \/ DatabaseError
    /\ UNCHANGED <<page_num, total_pages, id_list, id_pos, row>>
    /\ IngestUnchanged

\* anime_ids = get_anime_ids(stat_connection); row = count(1)
ingest_get_anime_ids ==
    /\ prog = "ingest" /\ pc = "get_ids"
    /\ id_list' = get_anime_ids(work)
    /\ id_pos' = 1 /\ row' = 1
    /\ pc' = "stats"
    /\ UNCHANGED <<db, work, outcome, exit_status, log, page_num, total_pages, resp>>
    /\ IngestUnchanged

\* One iteration of upload_anime_stats: fetch the statistics (None unless
\* 200), take the next row number, then insert, or commit and reset the counter.
ingest_stat ==
    /\ prog = "ingest" /\ pc = "stats" /\ id_pos <= Len(id_list)
    /\ \E status \in Statuses \cup {TransportError} :
          LET id_ == id_list[id_pos]
              rows == row
          IN /\ IF status = TransportError
                THEN Crash /\ UNCHANGED <<id_pos, row>>
                ELSE IF status = HTTP_OK /\ rows \in 1..CommitRows
                     THEN \/ /\ work' = [work EXCEPT !.stage_stats =
                                           Append(@, StatsRow(id_, ServerStats(id_), "now"))]
                             /\ row' = rows + 1
                             /\ id_pos' = id_pos + 1
                             /\ resp' = status
                             /\ UNCHANGED <<db, pc, outcome, exit_status, log>>
                          \/ DatabaseError /\ UNCHANGED <<id_pos, row>>
                     ELSE \/ /\ db' = commit(db, work) /\ work' = db'
                             /\ row' = 1
                             /\ id_pos' = id_pos + 1
                             /\ resp' = status
                             /\ UNCHANGED <<pc, outcome, exit_status, log>>
                          \/ DatabaseError /\ UNCHANGED <<id_pos, row>>
    /\ UNCHANGED <<page_num, total_pages, id_list>>
    /\ IngestUnchanged

\* stat_connection.commit(); stat_connection.close()
ingest_commit_stats ==
    /\ prog = "ingest" /\ pc = "stats" /\ id_pos > Len(id_list)
    /\ \/ /\ db' = commit(db, work) /\ work' = db'
          /\ pc' = "insert"
          /\ resp' = 0
          /\ UNCHANGED <<outcome, exit_status, log>>
       \/ DatabaseError
    /\ UNCHANGED <<page_num, total_pages, id_list, id_pos, row>>
    /\ IngestUnchanged

\* One statement of the cleanup transaction, or the DatabaseError it raises.
CleanupStatement(at, tables, then) ==
    /\ prog = "ingest" /\ pc = at
    /\ \/ /\ work' = tables
          /\ pc' = then
          /\ UNCHANGED <<db, outcome, exit_status, log, resp>>
       \/ DatabaseError
    /\ UNCHANGED <<page_num, total_pages, id_list, id_pos, row>>
    /\ IngestUnchanged

ingest_insert == CleanupStatement("insert", insert_anime_scores_and_stats(work), "refresh")
ingest_refresh == CleanupStatement("refresh", refresh_views(work), "clear")
ingest_clear == CleanupStatement("clear", clear_staging(work), "commit")

\* cleanup_connection.commit(); close; closeall(); "Done!"
ingest_commit_cleanup ==
    /\ prog = "ingest" /\ pc = "commit"
    /\ \/ /\ db' = commit(db, work) /\ work' = db'
          /\ outcome' = "promoted"
          /\ pc' = "exit" /\ exit_status' = "0"
          /\ log' = Append(log, <<"Done!">>)
          /\ UNCHANGED resp
       \/ DatabaseError
    /\ UNCHANGED <<page_num, total_pages, id_list, id_pos, row>>
    /\ IngestUnchanged

-----------------------------------------------------------------------------
\* The catalog the anime program writes for the first n pages.
RECURSIVE FirstPages(_)
FirstPages(n) == IF n = 0 THEN <<>> ELSE Append(FirstPages(n - 1), ServerPage(n))

\* The object an earlier run of the same day left under the catalog's key.
EarlierCatalog(dt) ==
    [key |-> PartitionKey("all_anime/raw", dt, "all_anime.json"),
     body |-> Dumps(extract_anime_data(FirstPages(1)))]

InitAnime ==
    /\ prog = "anime"
    /\ partition_date \in PartitionDates
    /\ \/ cli_page_count = <<>> /\ server_pages \in 1..MaxPages
       \/ cli_page_count \in {<<n>> : n \in 0..MaxPages} /\ server_pages = MaxPages
    /\ store \in {{}, {EarlierCatalog(partition_date)}}

InitAnimeStats ==
    /\ prog = "animestats"
    /\ partition_date \in PartitionDates
    /\ cli_page_count = <<>> /\ server_pages = MaxPages
    /\ \/ store = {}
       \/ \E n \in 0..MaxPages :
             store = {[key |-> InputFile, body |-> Dumps(extract_anime_data(FirstPages(n)))]}
    /\ \/ testing = FALSE /\ sample = 0
       \/ testing = TRUE /\ sample \in 0..MaxSample

\* The tables an earlier run left: its catalog in production, and after a
\* run that also loaded statistics, those in production, in the view and
\* (never truncated) in staging.
EarlierAnime(k) ==
    [i \in 1..k |-> [id |-> 10 * i, title |-> <<"earlier title", 10 * i>>,
                           load_date |-> "earlier"]]
EarlierStats(k) ==
    [i \in 1..k |-> [anime_id |-> 10 * i, scores |-> Dumps([total |-> 0]),
                           load_date |-> "earlier"]]
EarlierTables ==
    {EmptyTables}
    \cup {[EmptyTables EXCEPT !.all_anime = EarlierAnime(k)] : k \in 1..MaxEarlier}
    \cup {[EmptyTables EXCEPT !.all_anime = EarlierAnime(k), !.stats = EarlierStats(k),
                              !.view = EarlierStats(k), !.stage_stats = EarlierStats(k)]
          : k \in 1..MaxEarlier}

InitIngest ==
    /\ prog = "ingest"
    /\ cli_page_count = <<>> /\ server_pages \in 1..MaxPages
    /\ db \in EarlierTables

Init ==
    /\ \/ InitAnime /\ testing = FALSE /\ sample = 0 /\ db = EmptyTables
       \/ InitAnimeStats /\ db = EmptyTables
       \/ InitIngest /\ store = {} /\ testing = FALSE /\ sample = 0
                     /\ partition_date = PartitionDate
    /\ store0 = store
    /\ work = db /\ prod0 = Production(db)
    /\ page_num = 0 /\ total_pages = 0 /\ id_list = <<>> /\ id_pos = 0 /\ row = 1
    /\ resp = 0
    /\ raw_anime_stats = <<>> /\ mapped_scores = <<>> /\ anime_scores = <<>> /\ clock = 0
    /\ outcome = "running"
    /\ anime_ids = [kind |-> "list", items |-> <<>>]
    /\ to_process = <<>> /\ anime_stats = <<>> /\ total_anime = 0
    /\ pc = "main" /\ exit_status = "none" /\ ret = NotReturned
    /\ log = <<>>
    /\ page_count = 0 /\ urls = <<>> /\ pages = <<>> /\ tasks = <<>> /\ idx = 0 /\ session = "none"
    /\ lastStatus = [i \in Items |-> 0]
    /\ throttled = {}
    /\ redispatched = {}
    /\ gen = 0

\* The steps of the two asynchronous extractors.
ExtractNext ==
    \/ upload_all_anime_start
    \/ generate_anime_list_head
    \/ generate_anime_list_dispatch
    \/ get_anime_page_resolve
    \/ generate_anime_list_gather
    \/ generate_anime_list_raise
    \/ upload_all_anime_write
    \/ upload_anime_stats_start
    \/ get_anime_stats_enter
    \/ get_anime_stats_head
    \/ get_anime_stats_dispatch
    \/ get_stats_resolve
    \/ get_anime_stats_gather
    \/ get_anime_stats_raise
    \/ upload_anime_stats_write

Next ==
    \/ ExtractNext
    \/ ingest_get_page_count
    \/ ingest_page
    \/ ingest_commit_list
    \/ ingest_get_anime_ids
    \/ ingest_stat
    \/ ingest_commit_stats
    \/ ingest_insert
    \/ ingest_refresh
    \/ ingest_clear
    \/ ingest_commit_cleanup

Spec == Init /\ [][Next]_vars

\* The event loop keeps running and every request in flight ends (with an
\* answer or with a transport error): some enabled step is always taken.
FairSpec == Spec /\ WF_vars(Next)

\* The asynchronous extractors alone, under the same fairness.
ExtractInit == Init /\ prog \in {"anime", "animestats"}
ExtractSpec == ExtractInit /\ [][ExtractNext]_vars /\ WF_vars(ExtractNext)

-----------------------------------------------------------------------------
(* transform/transform.py: the score rows of the Spark job *)

\* The entries of a score breakdown, and the breakdowns the job can meet.
ScoreEntries == {[score |-> 1, votes |-> 5], [score |-> 2, votes |-> 3]}
ScoreLists == UNION {[1..n -> ScoreEntries] : n \in 0..MaxScores}

\* A record of anime_stats.json: the document of the statistics endpoint
\* with the mal_id that get_stats added.
StatRecord(id, s) == [data |-> [total |-> id, scores |-> s], mal_id |-> id]
RawStatsInputs ==
    UNION {{[i \in 1..n |-> StatRecord(10 * i, ls[i])] : ls \in [1..n -> ScoreLists]}
           : n \in 0..MaxStatRecords}

\* int(time.time() * 1000) for each score of a call: the clock shows t0 up
\* to the k-th score and t1 from then on.
Tick(t) == IF t < MaxClock THEN t + 1 ELSE t
TimesFrom(t0, t1, k, n) == [i \in 1..n |-> IF i <= k THEN t0 ELSE t1]

\* Variant: scores.insert(0, score).
extract_and_flatten_scores_prepends(stat, times) ==
    LET s == stat.data.scores
        n == Len(s)
    IN [i \in 1..n |->
           [mal_id |-> stat.mal_id, update_time |-> times[n + 1 - i]] @@ s[n + 1 - i]]
\* extract_and_flatten_scores: for score in anime_stats['data']['scores']:
\* score['mal_id'] = ...; score['update_time'] = ...; scores.append(score)
extract_and_flatten_scores(stat, times) ==
    LET s == stat.data.scores
    IN [i \in 1..Len(s) |->
           [mal_id |-> stat.mal_id, update_time |-> times[i]] @@ s[i]]

\* flatMap(lambda x: x)
RECURSIVE FlatMap(_)
FlatMap(lists) == IF lists = <<>> THEN <<>> ELSE Head(lists) \o FlatMap(Tail(lists))

TransformUnchanged ==
    UNCHANGED <<prog, ret, store, partition_date, store0, log, cli_page_count,
                server_pages, page_count, urls, pages, tasks, idx, session,
                StatsVars, IngestVars, lastStatus, throttled, redispatched, gen>>

\* sc.parallelize(raw_anime_stats).map(extract_and_flatten_scores), one
\* record at a time; the clock may tick during the call.
transform_map_scores ==
    /\ prog = "transform" /\ pc = "map_scores"
    /\ Len(mapped_scores) < Len(raw_anime_stats)
    /\ LET record == raw_anime_stats[Len(mapped_scores) + 1]
           n == Len(record.data.scores)
       IN \E t1 \in {clock, Tick(clock)}, k \in 0..n :
             /\ t1 = clock => k = n
             /\ mapped_scores' =
                   Append(mapped_scores,
                          extract_and_flatten_scores(record, TimesFrom(clock, t1, k, n)))
             /\ clock' = t1
    /\ UNCHANGED <<pc, exit_status, raw_anime_stats, anime_scores>>
    /\ TransformUnchanged

\* .flatMap(lambda x: x): the score rows handed to spark.read.json.
transform_flat_map ==
    /\ prog = "transform" /\ pc = "map_scores"
    /\ Len(mapped_scores) = Len(raw_anime_stats)
    /\ anime_scores' = FlatMap(mapped_scores)
    /\ pc' = "exit" /\ exit_status' = "0"
    /\ UNCHANGED <<raw_anime_stats, mapped_scores, clock>>
    /\ TransformUnchanged

\* The job starts on the statistics batch it read from storage.
TransformInit ==
    /\ prog = "transform" /\ pc = "map_scores"
    /\ raw_anime_stats \in RawStatsInputs
    /\ mapped_scores = <<>> /\ anime_scores = <<>> /\ clock = 0
    /\ exit_status = "none" /\ ret = NotReturned /\ log = <<>>
    /\ store = {} /\ store0 = store /\ partition_date = PartitionDate
    /\ cli_page_count = <<>> /\ server_pages = MaxPages
    /\ testing = FALSE /\ sample = 0
    /\ db = EmptyTables /\ work = db /\ prod0 = Production(db)
    /\ page_num = 0 /\ total_pages = 0 /\ id_list = <<>> /\ id_pos = 0 /\ row = 1
    /\ resp = 0 /\ outcome = "running"
    /\ anime_ids = [kind |-> "list", items |-> <<>>]
    /\ to_process = <<>> /\ anime_stats = <<>> /\ total_anime = 0
    /\ page_count = 0 /\ urls = <<>> /\ pages = <<>> /\ tasks = <<>> /\ idx = 0
    /\ session = "none"
    /\ lastStatus = [i \in Items |-> 0]
    /\ throttled = {} /\ redispatched = {} /\ gen = 0

TransformNext == transform_map_scores \/ transform_flat_map

TransformSpec == TransformInit /\ [][TransformNext]_vars

-----------------------------------------------------------------------------
(* Vocabulary of the properties. *)

\* The pages generate_anime_list was asked for, and how each ended.
PagesAsked == 1..page_count
Dropped == {p \in PagesAsked : lastStatus[p] \in OtherStatuses}
Succeeded == {p \in PagesAsked : lastStatus[p] = HTTP_OK}
PayloadsOf(p) == {j \in 1..Len(pages) : pages[j] = ServerPage(p)}

ListEntered == prog = "anime" /\ pc \in {"head", "dispatch", "gather"}
\* generate_anime_list has returned pages (get_anime closed the session).
ListReturned == prog = "anime" /\ pc = "write"
\* The exception of a request left generate_anime_list.
ListAborted == prog = "anime" /\ pc = "exit" /\ ret.err = "ClientConnectionError"
FailureRedispatched == {e \in redispatched : e[2] \in OtherStatuses}
SuccessRedispatched == {e \in redispatched : e[2] = HTTP_OK}

-----------------------------------------------------------------------------
(* get_anime_stats under throttling *)

StatsEntered == prog = "animestats" /\ pc \in {"head", "dispatch", "gather"}
StatsReturned == prog = "animestats" /\ pc = "write"

RecordsOf(id) == {j \in 1..Len(anime_stats) : anime_stats[j].mal_id = id}
ExactlyOnePerId ==
    /\ Len(anime_stats) = Len(anime_ids.items)
    /\ \A i \in 1..Len(anime_ids.items) : Cardinality(RecordsOf(anime_ids.items[i])) = 1

OnlyOkOrThrottled == \A id \in MalIds : lastStatus[id] \in {0, HTTP_OK, HTTP_TOO_MANY_REQUESTS}
ThrottleStep ==
    /\ Len(tasks') = Len(tasks)
    /\ \E i \in 1..Len(tasks) :
          /\ tasks[i].state = "pending" /\ tasks'[i].state = "returned"
          /\ tasks'[i].result[1] = HTTP_TOO_MANY_REQUESTS

\* C1: when get_anime_stats is given a list of distinct identifiers and the
\* server answers every request 200 or 429, and 429 only finitely often
\* (the first K requests of an identifier, K bounded), get_anime_stats
\* returns, with exactly one record per identifier and no other record.
C1_CompleteUnderThrottling ==
    (<>StatsEntered /\ []OnlyOkOrThrottled /\ <>[][~ThrottleStep]_vars)
        => <>(StatsReturned /\ ExactlyOnePerId)

\* Identifiers 10, 20, 30; only 20 was throttled and is alone in the last
\* generation; the three records are returned.
C1_Witness ==
    /\ StatsReturned /\ ExactlyOnePerId
    /\ anime_ids.items = <<10, 20, 30>>
    /\ gen = 2 /\ Len(tasks) = 1 /\ tasks[1].item = 20
    /\ [j \in 1..3 |-> anime_stats[j].mal_id] = <<10, 30, 20>>
-----------------------------------------------------------------------------
(* Merge/Promote of main.py *)

\* C2: production is changed atomically or not at all.  Unless the cleanup
\* transaction committed, the committed production tables are those the run
\* started with, whatever failed and wherever; once it committed, the whole
\* of the transaction is committed: the merged statistics, the view
\* refreshed from them and the staged catalog truncated.
C2_ProductionAtomic ==
    prog = "ingest" =>
        /\ outcome # "promoted" => Production(db) = prod0
        /\ outcome = "promoted" =>
              /\ db = work
              /\ db.stats = UpsertAll(prod0.stats, db.stage_stats, "anime_id")
              /\ db.view = db.stats
              /\ db.stage_all_anime = <<>>

\* clear_staging raised after the merge had changed production inside the
\* transaction; the run is over and production is as it was.
C2_Witness ==
    /\ prog = "ingest" /\ pc = "exit" /\ outcome = "db_error"
    /\ log[1] = <<"A database error occurred", "clear">>
    /\ Production(MergeStaged(db)) # Production(db)
    /\ Production(db) = prod0

\* C3: the promote sequence is idempotent.  On any tables the transaction
\* can see, promoting twice leaves the production tables as promoting once.
C3_PromoteIdempotent ==
    prog = "ingest" => Production(Promote(Promote(work))) = Production(Promote(work))

\* The cleanup transaction is about to start on a staged batch that
\* overwrites a production row, adds a new one, and changes production.
C3_Witness ==
    /\ prog = "ingest" /\ pc = "insert"
    /\ \E i \in 1..Len(work.stage_all_anime), j \in 1..Len(work.all_anime) :
          work.stage_all_anime[i].id = work.all_anime[j].id
    /\ \E i \in 1..Len(work.stage_all_anime) :
          \A j \in 1..Len(work.all_anime) :
             work.stage_all_anime[i].id # work.all_anime[j].id
    /\ work.stage_stats # <<>>
    /\ Production(Promote(work)) # Production(work)

-----------------------------------------------------------------------------
(* generate_anime_list of ingest/utils/anime.py *)

OneDroppedRestOk ==
    /\ prog = "anime"
    /\ Cardinality(Dropped) = 1
    /\ Succeeded \cup Dropped = PagesAsked

\* C4: when exactly one of the N pages ended in a status other than 200 and
\* 429 and every other page was answered 200, the failed page is not
\* dispatched again, the run is not aborted by it, and the pages collected
\* are exactly the N-1 payloads of the other pages, each once.
C4_PartialFailureContained ==
    OneDroppedRestOk =>
        /\ FailureRedispatched = {}
        /\ pc \in {"gather", "head", "write", "exit"}
        /\ ~ListAborted
        /\ pc \in {"head", "write", "exit"} =>
              /\ Len(pages) = page_count - 1
              /\ \A p \in Succeeded : Cardinality(PayloadsOf(p)) = 1

\* Three pages: one dropped, another throttled first and answered 200 on a
\* later dispatch; the function has returned two payloads.
C4_Witness ==
    /\ ListReturned /\ OneDroppedRestOk
    /\ page_count = 3 /\ throttled # {}
    /\ Len(pages) = 2

\* What a run records of an error: the messages of logger.exception.
ErrorMessages ==
    {"An error occurred while getting anime info",
     "An error occurred while getting anime stats.",
     "A database error occurred"}
RecordedErrors == {i \in 1..Len(log) : log[i][1] \in ErrorMessages}
DroppedItems == {i \in Items : lastStatus[i] \in OtherStatuses}
\* The counts of the run summary: upload_anime_stats returns and logs the
\* number of records; upload_all_anime returns and logs the key only.
SummaryCounts ==
    IF prog = "animestats" /\ pc = "exit"
    THEN {ret.value[1]}
         \cup {log[i][2] : i \in {j \in 1..Len(log) :
                                     log[j][1] \in {"Extracted stats for", "Uploaded"}}}
    ELSE {}
UploadDone == prog \in {"anime", "animestats"} /\ pc = "exit" /\ ret.err = "None"

\* C5: every permanent fetch failure is recorded.  When upload_all_anime or
\* upload_anime_stats has finished, an error is recorded for each page or
\* identifier dropped for a status other than 200 and 429, and the number
\* of dropped items is in the run summary.
C5_DropsRecorded ==
    (UploadDone /\ DroppedItems # {}) =>
        /\ Cardinality(RecordedErrors) >= Cardinality(DroppedItems)
        /\ Cardinality(DroppedItems) \in SummaryCounts

\* The outcome a finished fetch has for its caller.
Outcome(task) ==
    IF task.state = "returned"
    THEN IF task.result[1] = HTTP_OK THEN "Success"
         ELSE IF task.result[1] = HTTP_TOO_MANY_REQUESTS THEN "RateLimited"
         ELSE "OtherFailure"
    ELSE "exception"

\* C6: every fetch (get_anime_page, get_stats) that has ended resolved to
\* exactly one of Success, RateLimited and OtherFailure, a transport error
\* being an OtherFailure of its item.
C6_EveryFetchClassified ==
    \A i \in 1..Len(tasks) :
        tasks[i].state # "pending" =>
            /\ Outcome(tasks[i]) \in {"Success", "RateLimited", "OtherFailure"}
            /\ lastStatus[tasks[i].item] = TransportError
                  => Outcome(tasks[i]) = "OtherFailure"

\* C7: in generate_anime_list, every page answered 429 in a generation is in
\* the work-set when the loop tests it next, every URL of the work-set has
\* its request dispatched in the generation that follows, and the function
\* does not return while the work-set holds a URL.
C7_ThrottledRetried ==
    prog = "anime" =>
        /\ pc = "head" =>
              \A p \in PagesAsked :
                 lastStatus[p] = HTTP_TOO_MANY_REQUESTS
                    => Cardinality({i \in 1..Len(urls) : urls[i] = PageUrl(p)}) = 1
        /\ pc = "gather" =>
              /\ Len(tasks) = Len(urls)
              /\ \A i \in 1..Len(urls) : tasks[i].url = urls[i]
        /\ (pc = "write" \/ (pc = "exit" /\ ~ListAborted)) =>
              /\ urls = <<>>
              /\ \A p \in PagesAsked : lastStatus[p] # HTTP_TOO_MANY_REQUESTS

\* The second generation is being gathered: page 2, throttled in the first,
\* is dispatched again, alone, and page 1 has been collected.
C7_Witness ==
    /\ prog = "anime" /\ pc = "gather" /\ gen = 2
    /\ throttled = {2}
    /\ urls = <<PageUrl(2)>> /\ Len(tasks) = 1 /\ tasks[1].url = PageUrl(2)
    /\ pages = <<ServerPage(1)>>

AllFirstTry ==
    /\ throttled = {}
    /\ \A p \in PageNumbers : lastStatus[p] \in {0, HTTP_OK}

\* C8: when every page fetch succeeded on its first attempt,
\* generate_anime_list with page count N returns the N payloads of the
\* pages 1..N, each once, after one generation of N requests.
C8_AllSucceedFirstTry ==
    (ListReturned /\ AllFirstTry) =>
        /\ pages = [p \in 1..page_count |-> ServerPage(p)]
        /\ \A p \in PagesAsked : Cardinality(PayloadsOf(p)) = 1
        /\ Len(tasks) = page_count
        /\ gen = (IF page_count = 0 THEN 0 ELSE 1)
        /\ redispatched = {}

\* last_visible_page = 3 read from the server, three payloads returned.
C8_Witness ==
    /\ ListReturned /\ AllFirstTry
    /\ cli_page_count = <<>> /\ server_pages = 3 /\ page_count = 3
    /\ Len(pages) = 3

-----------------------------------------------------------------------------
(* get_anime_stats of ingest/utils/animestats.py *)

\* C9: get_anime_stats never fetches again an identifier that succeeded: no
\* identifier is dispatched after its request was answered 200, no request
\* in flight is for an identifier that has a record, and no identifier has
\* two records.
C9_NoRefetchAfterSuccess ==
    prog = "animestats" =>
        /\ SuccessRedispatched = {}
        /\ \A id \in MalIds : Cardinality(RecordsOf(id)) <= 1
        /\ pc \in {"dispatch", "gather"} =>
              \A i \in 1..Len(tasks) : RecordsOf(tasks[i].item) = {}

\* A second generation is in flight for the throttled identifier 20 only,
\* while 10 and 30 have their records.
C9_Witness ==
    /\ prog = "animestats" /\ pc = "gather" /\ gen = 2
    /\ anime_ids.items = <<10, 20, 30>>
    /\ [j \in 1..Len(anime_stats) |-> anime_stats[j].mal_id] = <<10, 30>>
    /\ Len(tasks) = 1 /\ tasks[1].item = 20

-----------------------------------------------------------------------------
(* Termination of generate_anime_list *)

AnsweredOtherThan429(p) == lastStatus[p] \in Statuses \ {HTTP_TOO_MANY_REQUESTS}
\* Every page asked for has its answer with a status other than 429.
AllAnswered == \A p \in PagesAsked : AnsweredOtherThan429(p)

\* C10: if every page URL of the work-set is eventually answered, on some
\* dispatch, with a status other than 429, generate_anime_list eventually
\* drains its work-set and returns.
C10_RetryLoopTerminates ==
    (<>ListEntered /\ (ListEntered ~> AllAnswered))
        => <>(ListReturned /\ urls = <<>>)

\* The function has returned after a page was throttled in each of at
\* least two generations before its answer.
C10_Witness ==
    /\ ListReturned /\ urls = <<>>
    /\ page_count = 2 /\ throttled = {1, 2} /\ gen = 2
    /\ AllAnswered

-----------------------------------------------------------------------------
(* Errors of the entry points *)

PageCountFailed == prog = "anime" /\ lastStatus[PageCountRequest] \notin {0, HTTP_OK}

\* C11: when the page-count request of upload_all_anime is not answered 200,
\* no page fetch is dispatched, nothing is written to storage,
\* upload_all_anime returns an error and main exits with status 1.
C11_PageCountErrorIsFatal ==
    PageCountFailed =>
        /\ tasks = <<>> /\ gen = 0 /\ urls = <<>>
        /\ \A p \in PageNumbers : lastStatus[p] = 0
        /\ store = store0
        /\ ret.err \notin {"-", "None"} /\ ret.value = NoValue
        /\ pc = "exit" /\ exit_status = "1"

\* The page-count request was answered 404 and the run is over.
C11_Witness ==
    /\ PageCountFailed /\ lastStatus[PageCountRequest] = 404
    /\ pc = "exit" /\ ret.err = "ValueError"

RunFailed ==
    \/ prog \in {"anime", "animestats"} /\ pc = "exit" /\ ret.err # "None"
    \/ prog = "ingest" /\ pc = "exit" /\ outcome \in {"db_error", "crashed"}

\* C12: a run that failed in a stage (fetch, storage write, staging write
\* or merge) exits with a non-zero status and does not promote, for
\* anime.py, animestats.py and the relational pipeline of main.py alike.
C12_FailedRunExitsNonZero ==
    RunFailed => (exit_status = "1" /\ outcome # "promoted")

-----------------------------------------------------------------------------
(* upload_anime_stats of ingest/utils/animestats.py *)

\* The catalog under the input file, and its identifiers in catalog order.
Catalog ==
    IF StoredUnder(store, InputFile) = {} THEN <<>>
    ELSE Loads((CHOOSE o \in StoredUnder(store, InputFile) : TRUE).body)
CatalogIds == [i \in 1..Len(Catalog) |-> Catalog[i].mal_id]
StatsFile == PartitionKey("anime_stats/raw", partition_date, "anime_stats.json")

\* C13: without a sample parameter, for a non-empty catalog that was read,
\* whose fetches all succeed and whose batch is written, upload_anime_stats
\* has fetched every identifier of the catalog and returns
\* (None, number of identifiers in the catalog).
C13_FullCatalogRun ==
    (/\ prog = "animestats" /\ ~testing /\ pc = "exit"
     /\ CatalogIds # <<>>
     /\ ret.err \notin {"ValueError", "ClientError"}
     /\ \A id \in MalIds : lastStatus[id] \in {0, HTTP_OK})
        => /\ ret = Return("None", <<Len(CatalogIds)>>)
           /\ \A i \in 1..Len(CatalogIds) : lastStatus[CatalogIds[i]] = HTTP_OK

\* upload_anime_stats has called get_anime_stats.
StatsCalled ==
    /\ prog = "animestats"
    /\ \/ pc \in {"get_anime_stats", "head", "dispatch", "gather", "write"}
       \/ pc = "exit" /\ ret.err # "ValueError"

\* C14: with testing=True and sample size s, get_anime_stats is given the
\* first min(s, catalog size) identifiers of the catalog in catalog order,
\* it collects at most s records and the written batch holds at most s.
C14_SampleTruncation ==
    (StatsCalled /\ testing) =>
        /\ anime_ids.kind = "list"
        /\ Len(anime_ids.items) =
              (IF sample < Len(CatalogIds) THEN sample ELSE Len(CatalogIds))
        /\ \A i \in 1..Len(anime_ids.items) : anime_ids.items[i] = CatalogIds[i]
        /\ pc = "head" /\ gen = 0 => to_process = anime_ids.items
        /\ Len(anime_stats) <= sample
        /\ \A o \in StoredUnder(store, StatsFile) : Len(Loads(o.body)) <= sample

\* Sample size 3 on a catalog of four: the batch of the three first
\* identifiers has been written.
C14_Witness ==
    /\ prog = "animestats" /\ testing /\ sample = 3 /\ pc = "exit"
    /\ CatalogIds = <<10, 20, 30, 40>>
    /\ anime_ids.items = <<10, 20, 30>>
    /\ ret = Return("None", <<3>>)
    /\ \E o \in StoredUnder(store, StatsFile) : Len(Loads(o.body)) = 3

-----------------------------------------------------------------------------
(* The partitioned sink of ingest/utils/storage.py *)

\* The layout of a key, written out.
KeyLayout(p, Y, M, D, f) == <<p, "/year=", Y, "/month=", M, "/day=", D, "/", f>>
RunKey(p, f) ==
    KeyLayout(p, partition_date.year, partition_date.month, partition_date.day, f)
Written(key, obj) == \E o \in store : o.key = key /\ Loads(o.body) = obj
SinkInputs ==
    {"all_anime/raw", "anime_stats/raw"} \X PartitionDates
        \X {"all_anime.json", "anime_stats.json"}

\* C15: write_to_storage with prefix p, filename f and partition date
\* (Y, M, D) writes the object under p/year=Y/month=M/day=D/f and returns
\* that key: the catalog of upload_all_anime and the batch of
\* upload_anime_stats are under the key of the run's date and nowhere else,
\* on 2022-10-10 the catalog's key is
\* all_anime/raw/year=2022/month=10/day=10/all_anime.json, and two calls
\* have the same key exactly when prefix, date and filename are the same.
C15_DeterministicPartitioning ==
    /\ (prog = "anime" /\ pc = "exit" /\ ret.err = "None") =>
          /\ ret.value = <<RunKey("all_anime/raw", "all_anime.json")>>
          /\ Written(RunKey("all_anime/raw", "all_anime.json"), extract_anime_data(pages))
          /\ \A o \in store \ store0 : o.key = RunKey("all_anime/raw", "all_anime.json")
          /\ partition_date = [year |-> 2022, month |-> 10, day |-> 10] =>
                ret.value[1] = <<"all_anime/raw", "/year=", 2022, "/month=", 10,
                                 "/day=", 10, "/", "all_anime.json">>
    /\ (prog = "animestats" /\ pc = "exit" /\ ret.err = "None") =>
          /\ Written(RunKey("anime_stats/raw", "anime_stats.json"), anime_stats)
          /\ \A o \in store \ store0 : o.key = RunKey("anime_stats/raw", "anime_stats.json")
    /\ pc \in {"main", "exit"} =>
        \A a \in SinkInputs, b \in SinkInputs :
          LET wa == write_to_storage(store, <<>>, a[1], a[3], a[2])
              wb == write_to_storage(store0, <<[mal_id |-> 10]>>, b[1], b[3], b[2])
          IN /\ wa.key = KeyLayout(a[1], a[2].year, a[2].month, a[2].day, a[3])
             /\ (wa.key = wb.key) <=> (a = b)

\* A run of 2023-01-05 has written its catalog under the key of that day.
C15_Witness ==
    /\ prog = "anime" /\ pc = "exit" /\ ret.err = "None"
    /\ partition_date = [year |-> 2023, month |-> 1, day |-> 5]
    /\ pages # <<>>
    /\ ret.value[1] = <<"all_anime/raw", "/year=", 2023, "/month=", 1,
                         "/day=", 5, "/", "all_anime.json">>
    /\ Written(ret.value[1], extract_anime_data(pages))

BodiesTried == {Dumps(<<>>), Dumps(<<[mal_id |-> 10]>>)}

\* C16: the sink is idempotent per key.  The store holds at most one object
\* per key; after a write the key holds the latest body and everything
\* else is as before; writing the same batch again changes nothing.
C16_SinkIdempotent ==
    /\ \A o1 \in store, o2 \in store : o1.key = o2.key => o1 = o2
    /\ (prog = "anime" /\ pc = "exit" /\ ret.err = "None") =>
          LET key == ret.value[1]
              body == Dumps(extract_anime_data(pages))
          IN /\ StoredUnder(store, key) = {[key |-> key, body |-> body]}
             /\ {o \in store : o.key # key} = {o \in store0 : o.key # key}
             /\ write_to_storage(store, extract_anime_data(pages), "all_anime/raw",
                                  "all_anime.json", partition_date).store = store
    /\ pc \in {"main", "exit"} =>
        \A a \in SinkInputs, b1 \in BodiesTried, b2 \in BodiesTried :
          LET key == PartitionKey(a[1], a[2], a[3])
              once == put_object(store, key, b2)
              twice == put_object(put_object(store, key, b1), key, b2)
          IN /\ twice = once
             /\ StoredUnder(twice, key) = {[key |-> key, body |-> b2]}

\* The catalog of an earlier run of the same day was under the key; the
\* run has replaced it with a different one.
C16_Witness ==
    /\ prog = "anime" /\ pc = "exit" /\ ret.err = "None"
    /\ store0 = {EarlierCatalog(partition_date)}
    /\ Cardinality(store) = 1
    /\ store # store0
    /\ Len(pages) = 2

-----------------------------------------------------------------------------
(* The cleanup transaction of main.py: order and failures *)

\* TRUNCATE has been executed and the cleanup transaction is not committed.
ClearIssued == prog = "ingest" /\ pc = "commit"
\* The statement at which a DatabaseError ended the run.
FailedAt(statement) ==
    /\ prog = "ingest" /\ pc = "exit" /\ outcome = "db_error"
    /\ log[1] = <<"A database error occurred", statement>>

\* C17 as stated: staging is cleared only after the upsert has committed,
\* so when TRUNCATE has been issued the production tables of the
\* transaction are the committed ones.
C17_ClearAfterMergeCommit ==
    ClearIssued => Production(db) = Production(work)

\* C17 amended: TRUNCATE is issued inside the cleanup transaction, after
\* the merge and the refresh and before the only commit.  Until that
\* commit the committed staging is untouched; the truncation is committed
\* together with the merge or not at all.
C17_ClearInsideMergeTransaction ==
    prog = "ingest" =>
        /\ pc \in {"insert", "refresh", "clear"} =>
              work.stage_all_anime = db.stage_all_anime
        /\ pc = "commit" =>
              /\ work.stage_all_anime = <<>>
              /\ work = Promote(db)
              /\ Production(db) = prod0
        /\ outcome = "promoted" => (db = work /\ db.stage_all_anime = <<>>)
        /\ (\E st \in {"insert", "refresh", "clear", "commit"} : FailedAt(st)) =>
              (db = work /\ Production(db) = prod0)

\* TRUNCATE has been issued on a transaction whose merge changes production
\* and is not committed: the committed staging still holds the rows.
C17_Witness ==
    /\ ClearIssued
    /\ work.stage_all_anime = <<>> /\ db.stage_all_anime # <<>>
    /\ Production(work) # Production(db)

\* C18: when insert_anime_scores_and_stats fails, clear_staging is not
\* executed and every row staged by the run is in staging afterwards: the
\* step from the failed statement to the end of the run leaves both
\* staging tables, committed and all, as they were.
C18_UpsertFailureKeepsStaging ==
    [][(prog = "ingest" /\ pc = "insert" /\ pc' = "exit") =>
          /\ outcome' = "db_error"
          /\ db'.stage_all_anime = work.stage_all_anime
          /\ db'.stage_stats = work.stage_stats
          /\ db' = db /\ work' = db']_vars

\* The upsert failed on a run that had staged catalog rows and statistics;
\* they are in the committed staging tables.
C18_Witness ==
    /\ FailedAt("insert")
    /\ db.stage_all_anime # <<>>
    /\ \E i \in 1..Len(db.stage_stats) : db.stage_stats[i].load_date = "now"

\* C19 as stated: when clear_staging fails after a successful upsert, the
\* rows upserted by the run are committed to production.
C19_ClearFailureKeepsUpsert ==
    FailedAt("clear") => Production(db) = Production(refresh_views(MergeStaged(db)))

\* C19 amended: a failure of clear_staging ends the cleanup transaction
\* without a commit.  The upsert is rolled back with it: production is as
\* it was before the run, the staging tables keep every row.
C19_ClearFailureRollsBack ==
    /\ [](FailedAt("clear") => (Production(db) = prod0 /\ db = work))
    /\ [][(prog = "ingest" /\ pc = "clear" /\ pc' = "exit") =>
             (outcome' = "db_error" /\ db' = db /\ work' = db)]_vars

\* clear_staging failed on a run whose upsert had changed production; the
\* change is not committed and the staged catalog is still there.
C19_Witness ==
    /\ FailedAt("clear") /\ exit_status = "0"
    /\ db.stage_all_anime # <<>>
    /\ Production(refresh_views(MergeStaged(db))) # Production(db)

\* C20: after a successful Merge/Promote the staging area holds no row of
\* the run of either record type: anime_stage.all_anime is empty and
\* anime_stage.anime_stats_scores holds no row the run inserted.
C20_StagingEmptyAfterPromote ==
    (prog = "ingest" /\ outcome = "promoted") =>
        /\ db.stage_all_anime = <<>>
        /\ \A i \in 1..Len(db.stage_stats) : db.stage_stats[i].load_date # "now"

-----------------------------------------------------------------------------
(* get_anime_stats: permanent failures *)

StatsIds == SeqRange(anime_ids.items)
StatsDropped == {id \in StatsIds : lastStatus[id] \in OtherStatuses}
StatsSucceeded == {id \in StatsIds : lastStatus[id] = HTTP_OK}
\* The generation that was gathered last held no 429.
NoneThrottledLast ==
    \A i \in 1..Len(tasks) :
        tasks[i].state = "returned" /\ tasks[i].result[1] # HTTP_TOO_MANY_REQUESTS

\* C21: get_anime_stats drops an identifier answered with a status other
\* than 200 and 429: it is never dispatched again; the loop exits at the
\* end of the first generation in which no request was answered 429 and
\* not before; what is returned is one record for each identifier that
\* succeeded, N minus the number of dropped identifiers in all.
C21_DropAndTerminate ==
    /\ [](prog = "animestats" =>
            /\ FailureRedispatched = {}
            /\ \A id \in StatsDropped :
                  RecordsOf(id) = {} /\ (pc = "head" => id \notin SeqRange(to_process))
            /\ (pc = "head" /\ gen > 0) =>
                  (Len(anime_stats) < total_anime <=> ~NoneThrottledLast)
            /\ StatsReturned =>
                  /\ NoneThrottledLast
                  /\ \A id \in StatsIds :
                        Cardinality(RecordsOf(id)) = (IF id \in StatsSucceeded THEN 1 ELSE 0)
                  /\ StatsSucceeded \cup StatsDropped = StatsIds
                  /\ Len(anime_stats) = Len(anime_ids.items) - Cardinality(StatsDropped))
    /\ [][(prog = "animestats" /\ pc = "head" /\ gen > 0) =>
             (pc' = "write" <=> NoneThrottledLast)]_vars

\* Three identifiers: 20 was answered 404 in the first generation, 30 was
\* throttled and got its answer in the second; two records are returned.
C21_Witness ==
    /\ StatsReturned
    /\ anime_ids.items = <<10, 20, 30>>
    /\ StatsDropped = {20} /\ throttled = {30} /\ gen = 2
    /\ Len(anime_stats) = 2 /\ Len(tasks) = 1

-----------------------------------------------------------------------------
(* Generations of the asynchronous extractors *)

\* The requests dispatched and not yet resolved.
InFlight == {i \in 1..Len(tasks) : tasks[i].state = "pending"}
\* The items of the work-set of the running extractor.
WorkSet ==
    IF prog = "anime" THEN [i \in 1..Len(urls) |-> PageOfUrl(urls[i])] ELSE to_process

\* C22: single writer per generation.  In generate_anime_list and
\* get_anime_stats the collected list and the work-set change only when no
\* request is in flight; the requests in flight are those of the current
\* work-set, in its order; a generation starts only when every request of
\* the one before has resolved.
C22_SingleWriterPerGeneration ==
    /\ [](prog \in {"anime", "animestats"} =>
            /\ pc = "head" => InFlight = {}
            /\ pc = "dispatch" => Len(tasks) = idx - 1
            /\ pc = "gather" => Len(tasks) = Len(WorkSet)
            /\ pc \in {"dispatch", "gather"} =>
                  \A i \in 1..Len(tasks) : tasks[i].item = WorkSet[i])
    /\ [][(pages' # pages \/ urls' # urls \/ anime_stats' # anime_stats
              \/ to_process' # to_process) => InFlight = {}]_vars
    /\ [][(pc = "head" /\ pc' \in {"dispatch", "gather"}) =>
              (InFlight = {} /\ tasks' = <<>>)]_vars

\* The second generation of get_anime_stats is being dispatched: one of its
\* requests is in flight, another not yet dispatched, and the records of
\* the first generation are collected.
C22_Witness ==
    /\ prog = "animestats" /\ pc = "dispatch" /\ gen = 2
    /\ Len(to_process) = 2 /\ idx = 2 /\ InFlight = {1}
    /\ Len(anime_stats) = 1

-----------------------------------------------------------------------------
(* Fetching and writing *)

\* The rows of a table that the run inserted.
RunRows(table) == SelectSeq(table, LAMBDA r : r.load_date = "now")

\* C23: storage is written only after all fetches of the stage have
\* completed.  The object store changes only when the extractor has left
\* its loop with no request in flight; in the relational pipeline no row
\* is inserted into a staging table while a page or an identifier of the
\* stage is still to be requested.
C23_WritesAfterAllFetches ==
    /\ (prog \in {"anime", "animestats"} /\ store # store0) =>
          (pc = "exit" /\ InFlight = {})
    /\ (prog = "ingest" /\ pc = "pages" /\ page_num <= total_pages) =>
          RunRows(work.stage_all_anime) = <<>>
    /\ (prog = "ingest" /\ pc = "stats" /\ id_pos <= Len(id_list)) =>
          RunRows(work.stage_stats) = <<>>

\* C24: a batch is written atomically to staging.  Of the rows that the run
\* has inserted into a staging table, either none is committed or all are:
\* no state has some of them committed and others not.
C24_BatchStagedAtomically ==
    prog = "ingest" =>
        /\ RunRows(db.stage_all_anime) \in {<<>>, RunRows(work.stage_all_anime)}
        /\ RunRows(db.stage_stats) \in {<<>>, RunRows(work.stage_stats)}

-----------------------------------------------------------------------------
(* upload_anime_stats of the relational pipeline *)

\* The identifier upload_anime_stats has just processed.
LastId == id_list[id_pos - 1]

\* C25: upload_anime_stats stages one row for every identifier whose
\* statistics fetch returned data, whatever its position in the list and
\* whatever the row counter: when the iteration of an identifier answered
\* 200 is over, its row is in the staging table of the transaction.
C25_EveryFetchedStatStaged ==
    (prog = "ingest" /\ pc = "stats" /\ resp = HTTP_OK) =>
        \E i \in 1..Len(work.stage_stats) :
            work.stage_stats[i] = StatsRow(LastId, ServerStats(LastId), "now")

-----------------------------------------------------------------------------
(* get_anime_stats: what it holds *)

\* The identifiers whose response body get_anime_stats holds: in a record
\* of anime_stats or in the result of a request of the current generation.
BodiesHeld ==
    {id \in MalIds :
        \/ RecordsOf(id) # {}
        \/ \E i \in 1..Len(tasks) :
              /\ tasks[i].item = id /\ tasks[i].state = "returned"
              /\ tasks[i].result[1] = HTTP_OK}

\* C26: the memory of get_anime_stats is bounded by the items in flight.
\* While a generation is dispatched and gathered, the number of response
\* bodies held is at most the number of requests of that generation.
C26_MemoryBoundedByInFlight ==
    (prog = "animestats" /\ pc \in {"dispatch", "gather"}) =>
        Cardinality(BodiesHeld) <= Len(to_process)

-----------------------------------------------------------------------------
(* The order of the stages of main.py *)

InCleanup == prog = "ingest" /\ pc \in {"insert", "refresh", "clear", "commit"}
InStaging == prog = "ingest" /\ pc \in {"main", "pages", "get_ids", "stats"}

\* C27: Merge/Promote is invoked only once both record types are staged.
\* The cleanup starts from the end of the statistics stage only, when the
\* catalog loop and the statistics loop have run to their end and
\* everything they inserted is committed; a run whose staging failed
\* ends there, with production as it was, and executes nothing more.
C27_PromoteAfterBothStaged ==
    /\ []((InCleanup \/ (prog = "ingest" /\ outcome = "promoted")) =>
            /\ page_num > total_pages /\ id_pos > Len(id_list)
            /\ InCleanup => outcome = "running"
            /\ pc = "insert" => db = work
            /\ InCleanup =>
                  /\ db.stage_stats = work.stage_stats
                  /\ RunRows(work.stage_all_anime) \in {<<>>, RunRows(db.stage_all_anime)})
    /\ [](outcome \in {"db_error", "crashed"} => pc = "exit")
    /\ [][(prog = "ingest" /\ pc' = "insert") =>
             (pc = "stats" /\ id_pos > Len(id_list) /\ db' = work' /\ work' = work)]_vars
    /\ [][(InStaging /\ pc' \notin {"pages", "get_ids", "stats", "insert"}) =>
             /\ pc' = "exit" /\ outcome' \in {"db_error", "crashed"}
             /\ Production(db') = prod0]_vars
    /\ [][pc # "exit"]_vars

\* The cleanup is about to start: the catalog rows and the statistics rows
\* of the run are both committed to staging.
C27_Witness ==
    /\ prog = "ingest" /\ pc = "insert" /\ db = work
    /\ Len(RunRows(db.stage_all_anime)) = 4
    /\ Len(RunRows(db.stage_stats)) = 2

-----------------------------------------------------------------------------
(* Rate limiting in the relational pipeline *)

\* C28: in the relational pipeline a page or an identifier answered 429 is
\* requested again: the step that receives a 429 leaves the loop of
\* generate_anime_list at the same page, and upload_anime_stats at the
\* same identifier.
C28_ThrottledRequestedAgain ==
    [][(prog = "ingest" /\ resp' = HTTP_TOO_MANY_REQUESTS) =>
          (page_num' = page_num /\ id_pos' = id_pos)]_vars

-----------------------------------------------------------------------------
(* get_stats: the tag of a record *)

\* The record holds the document the endpoint serves for the identifier it
\* is tagged with.
TaggedWithOwnId(record) == record.data = ServerStats(record.mal_id).data

\* C29: every record of get_anime_stats is tagged with the identifier of
\* the request that produced it.  With requests in flight and responses
\* arriving in any order, the mal_id of a result is the identifier in the
\* URL of its own request, and every collected record holds the document
\* of the identifier it is tagged with.
C29_RecordsTaggedWithOwnId ==
    prog = "animestats" =>
        /\ \A i \in 1..Len(tasks) :
              (tasks[i].state = "returned" /\ tasks[i].result[1] = HTTP_OK) =>
                  /\ tasks[i].result[2].mal_id = IdOfUrl(tasks[i].url)
                  /\ TaggedWithOwnId(tasks[i].result[2])
        /\ \A j \in 1..Len(anime_stats) :
              /\ TaggedWithOwnId(anime_stats[j])
              /\ anime_stats[j].mal_id \in StatsIds

\* Three requests are dispatched; the second and the third have been
\* answered 200 while the first is still in flight.
C29_Witness ==
    /\ prog = "animestats" /\ pc = "gather" /\ Len(tasks) = 3
    /\ InFlight = {1}
    /\ tasks[2].state = "returned" /\ tasks[3].state = "returned"
    /\ tasks[2].result[1] = HTTP_OK /\ tasks[3].result[1] = HTTP_OK
    /\ tasks[2].result[2].mal_id = 20 /\ tasks[3].result[2].mal_id = 30

-----------------------------------------------------------------------------
(* The work-set of generate_anime_list *)

Collected == {p \in PagesAsked : PayloadsOf(p) # {}}
InWorkSet == {p \in PagesAsked : \E i \in 1..Len(urls) : urls[i] = PageUrl(p)}
\* generate_anime_list is between two generations, or has returned.
GenerationBoundary == prog = "anime" /\ pc \in {"head", "write"}

\* C30: at every generation boundary of generate_anime_list each page 1..N
\* is in exactly one of the collected payloads, the work-set and the pages
\* dropped for a status other than 200 and 429, and in it once; the
\* work-set never gains a URL once the loop is entered, so a page that
\* left it does not return.
C30_WorkSetPartition ==
    /\ [](GenerationBoundary =>
            /\ Collected \cup InWorkSet \cup Dropped = PagesAsked
            /\ Collected \cap InWorkSet = {}
            /\ Collected \cap Dropped = {}
            /\ InWorkSet \cap Dropped = {}
            /\ Len(pages) = Cardinality(Collected)
            /\ Len(urls) = Cardinality(InWorkSet))
    /\ [][ListEntered => SeqRange(urls') \subseteq SeqRange(urls)]_vars

\* After two generations of three pages: page 1 is collected, page 2 was
\* dropped and page 3, throttled twice, is alone in the work-set.
C30_Witness ==
    /\ prog = "anime" /\ pc = "head" /\ gen = 2 /\ page_count = 3
    /\ Collected = {1} /\ Dropped = {2} /\ InWorkSet = {3}
    /\ Len(tasks) = 1

-----------------------------------------------------------------------------
(* The catalog batch of upload_all_anime *)

\* No two records of the batch have the same mal_id.
UniqueIdentity(batch) ==
    \A i \in 1..Len(batch), j \in 1..Len(batch) :
        batch[i].mal_id = batch[j].mal_id => i = j
CatalogWritten == prog = "anime" /\ pc = "exit" /\ ret.err = "None"

\* C31: the batch of a completed catalog run holds at most one record per
\* identity.  The listing serving every anime on one page, after any
\* interleaving of successes and retries extract_anime_data over the
\* returned pages yields two records per page and no two with the same
\* mal_id, and so does the object the run wrote.
C31_UniqueIdentityPerRun ==
    /\ (ListReturned \/ CatalogWritten) =>
          /\ UniqueIdentity(extract_anime_data(pages))
          /\ Len(extract_anime_data(pages)) = 2 * Len(pages)
    /\ CatalogWritten =>
          \A o \in StoredUnder(store, ret.value[1]) : UniqueIdentity(Loads(o.body))

\* Three pages, of which two were throttled before their answer: the batch
\* written holds six records.
C31_Witness ==
    /\ CatalogWritten /\ page_count = 3
    /\ Cardinality(throttled) = 2
    /\ \E o \in StoredUnder(store, ret.value[1]) : Len(Loads(o.body)) = 6

-----------------------------------------------------------------------------
(* Errors as values *)

Uploading == prog \in {"anime", "animestats"}
\* What the function returns with an error: (ex, None), resp. (ex, 0).
ErrorValue == IF prog = "anime" THEN NoValue ELSE <<0>>

\* C32: upload_all_anime and upload_anime_stats report errors as values.
\* A finished run has returned (None, result) with its batch written under
\* the run's key, the result being that key, resp. the number of records
\* written, or (error, None), resp. (error, 0); main exits 1 exactly when
\* the first component is not None; nothing is returned nor is the process
\* ended before.
C32_ErrorsAsValues ==
    /\ []((Uploading /\ pc # "exit") => (ret = NotReturned /\ exit_status = "none"))
    /\ []((Uploading /\ pc = "exit") =>
            /\ ret.err # "-"
            /\ ret.err = "None" =>
                  IF prog = "anime"
                  THEN /\ ret.value = <<RunKey("all_anime/raw", "all_anime.json")>>
                       /\ Written(ret.value[1], extract_anime_data(pages))
                  ELSE /\ ret.value = <<Len(anime_stats)>>
                       /\ Written(StatsFile, anime_stats)
            /\ ret.err # "None" => ret.value = ErrorValue
            /\ exit_status = (IF ret.err = "None" THEN "0" ELSE "1"))
    /\ [][(Uploading /\ pc' = "exit") => ret' # NotReturned]_vars

\* get_anime_stats collected a record and the write to storage failed:
\* upload_anime_stats returned (ClientError, 0) and main exited 1.
C32_Witness ==
    /\ prog = "animestats" /\ pc = "exit"
    /\ ret = Return("ClientError", <<0>>) /\ exit_status = "1"
    /\ Len(anime_stats) = 1 /\ store = store0

-----------------------------------------------------------------------------
(* A fetch that raises *)

\* A request of the run ended with a transport error.
FetchRaised == Uploading /\ \E i \in Items : lastStatus[i] = TransportError

\* C33: a fetch stage that ends in an error writes nothing.  Once a request
\* of upload_all_anime or upload_anime_stats has raised, write_to_storage
\* is never reached, the object store stays as it was when the run
\* started, and the run ends with an error returned.
C33_FailedFetchWritesNothing ==
    /\ [](FetchRaised =>
            /\ store = store0
            /\ pc \in {"dispatch", "gather", "exit"}
            /\ pc = "exit" => (ret.err \notin {"-", "None"} /\ exit_status = "1"))
    /\ [][(Uploading /\ pc = "gather" /\ SomeRaised(tasks)) =>
             (store' = store /\ pc' \in {"gather", "exit"})]_vars

\* The catalog of an earlier run is under the key; the run collected a page
\* in its first generation, a request of the second raised, and the
\* earlier catalog is still what the store holds.
C33_Witness ==
    /\ prog = "anime" /\ pc = "exit" /\ ret.err = "ClientConnectionError"
    /\ store0 = {EarlierCatalog(partition_date)} /\ store = store0
    /\ gen = 2 /\ Len(pages) = 1 /\ SomeRaised(tasks)

\* C34: no fetch outlives its generation.  Whenever generate_anime_list or
\* get_anime_stats is outside a generation (between two, returned, or
\* left by the exception of a request), no request it dispatched is in
\* flight, and none is in flight on a client session that is closed.
C34_NoFetchOutlivesGeneration ==
    Uploading =>
        /\ pc \in {"head", "write", "exit"} => InFlight = {}
        /\ session = "closed" => InFlight = {}

-----------------------------------------------------------------------------
(* extract_and_flatten_scores of transform/transform.py *)

\* The fields of a score as the source holds them.
SourceFields(score) == [score |-> score.score, votes |-> score.votes]

\* C35: extract_and_flatten_scores preserves source order.  For every
\* stat record mapped, with score breakdown s, the result has the length
\* of s, its i-th element is the i-th element of s with the two fields
\* added, and every element carries the mal_id of the record.
C35_ScoresKeepSourceOrder ==
    prog = "transform" =>
        \A r \in 1..Len(mapped_scores) :
            LET s == raw_anime_stats[r].data.scores
                result == mapped_scores[r]
            IN /\ Len(result) = Len(s)
               /\ \A i \in 1..Len(s) :
                     /\ SourceFields(result[i]) = s[i]
                     /\ result[i].mal_id = raw_anime_stats[r].mal_id
                     /\ DOMAIN result[i] = DOMAIN s[i] \cup {"mal_id", "update_time"}

\* A record whose breakdown lists score 2 before score 1 has been mapped,
\* the clock ticking between the two: the result lists them in that order.
C35_Witness ==
    /\ prog = "transform" /\ Len(mapped_scores) = 2
    /\ Len(raw_anime_stats[2].data.scores) = 2
    /\ [i \in 1..2 |-> raw_anime_stats[2].data.scores[i].score] = <<2, 1>>
    /\ Len(mapped_scores[2]) = 2
    /\ [i \in 1..2 |-> mapped_scores[2][i].score] = <<2, 1>>
    /\ mapped_scores[2][1].update_time < mapped_scores[2][2].update_time
    /\ mapped_scores[2][1].mal_id = 20
====
